---- MODULE Spec2Model ----
(***************************************************************************)
(* Model of import_batches.py: main() scans a fixed directory for files    *)
(* named batch_*_metrics.json, sorts them, loads each with json.load,      *)
(* extends one list with every parsed value, prints progress lines and     *)
(* finally prints json.dumps of the list.                                  *)
(*                                                                         *)
(* Text (file names, file contents, the emitted JSON line) is a sequence   *)
(* of one-character strings, so that json.load / json.dumps, the glob      *)
(* match and the ordering of sorted() are computed and not assumed.        *)
(***************************************************************************)
EXTENDS Integers, Sequences, FiniteSets, TLC

(***************************************************************************)
(* Bound of the model: the number of directory entries.                    *)
(***************************************************************************)
MaxEntries == 2

(***************************************************************************)
(* Characters.  Alphabet lists the characters of file names in ascending   *)
(* code point order ('.' 46 < '0'..'9' < '_' 95 < 'a'..'z'), which is the  *)
(* order Python compares str by.                                           *)
(***************************************************************************)
Alphabet ==
  << ".", "0", "1", "2", "3", "4", "5", "6", "7", "8", "9", "_",
     "a", "b", "c", "e", "h", "i", "j", "k", "m", "n", "o", "r", "s", "t" >>

Ord(c) == CHOOSE i \in 1..Len(Alphabet) : Alphabet[i] = c

DigitChars == << "0", "1", "2", "3", "4", "5", "6", "7", "8", "9" >>

IsDigit(c) == \E i \in 1..10 : DigitChars[i] = c

DigitVal(c) == (CHOOSE i \in 1..10 : DigitChars[i] = c) - 1

Drop(cs, k) == SubSeq(cs, k + 1, Len(cs))

StartsWith(cs, pre) ==
  /\ Len(cs) >= Len(pre)
  /\ SubSeq(cs, 1, Len(pre)) = pre

EndsWith(cs, suf) ==
  /\ Len(cs) >= Len(suf)
  /\ SubSeq(cs, Len(cs) - Len(suf) + 1, Len(cs)) = suf

(***************************************************************************)
(* JSON values as Python holds them after json.load.  Every value has the  *)
(* same four fields: t the type, n the number, s the characters of a str   *)
(* (or of a dict key), e the elements of a list, the items of a dict (in   *)
(* insertion order, keys unique) or the one value of a dict item.          *)
(***************************************************************************)
Num(n) == [t |-> "int", n |-> n, s |-> << >>, e |-> << >>]

Str(s) == [t |-> "str", n |-> 0, s |-> s, e |-> << >>]

NoneV == [t |-> "None", n |-> 0, s |-> << >>, e |-> << >>]

Bool(b) == [t |-> IF b THEN "True" ELSE "False", n |-> 0, s |-> << >>, e |-> << >>]

List(e) == [t |-> "list", n |-> 0, s |-> << >>, e |-> e]

Dict(items) == [t |-> "dict", n |-> 0, s |-> << >>, e |-> items]

Item(k, v) == [t |-> "item", n |-> 0, s |-> k, e |-> << v >>]

(***************************************************************************)
(* dict[k] = v as json.load's object hook does it: a repeated key keeps    *)
(* its first position and takes the last value.                            *)
(***************************************************************************)
RECURSIVE DictSet(_, _, _)
DictSet(items, k, v) ==
  IF items = << >> THEN << Item(k, v) >>
  ELSE IF Head(items).s = k THEN << Item(k, v) >> \o Tail(items)
  ELSE << Head(items) >> \o DictSet(Tail(items), k, v)

(***************************************************************************)
(* json.load: a recursive descent over the characters.  A parse step       *)
(* returns [ok, v, rest]; ok = FALSE is json.JSONDecodeError.              *)
(***************************************************************************)
Fail == [ok |-> FALSE, v |-> NoneV, rest |-> << >>]

Ok(v, rest) == [ok |-> TRUE, v |-> v, rest |-> rest]

RECURSIVE SkipWs(_)
SkipWs(cs) ==
  IF cs # << >> /\ Head(cs) = " " THEN SkipWs(Tail(cs)) ELSE cs

RECURSIVE ScanDigits(_, _)
ScanDigits(cs, acc) ==
  IF cs # << >> /\ IsDigit(Head(cs))
  THEN ScanDigits(Tail(cs), acc * 10 + DigitVal(Head(cs)))
  ELSE Ok(Num(acc), cs)

\* NUMBER_RE: 0 | [1-9][0-9]*  (a leading 0 ends the number)
ParseNumber(cs) ==
  IF Head(cs) = "0" THEN Ok(Num(0), Tail(cs)) ELSE ScanDigits(cs, 0)

RECURSIVE ScanString(_, _)
ScanString(cs, acc) ==
  IF cs = << >> THEN Fail
  ELSE IF Head(cs) = "\"" THEN Ok(Str(acc), Tail(cs))
  ELSE ScanString(Tail(cs), Append(acc, Head(cs)))

RECURSIVE ParseValue(_), ParseElements(_, _), ParseItems(_, _)
ParseValue(cs) ==
  IF cs = << >> THEN Fail
  ELSE IF Head(cs) = "[" THEN
    LET rest == SkipWs(Tail(cs))
    IN  IF rest # << >> /\ Head(rest) = "]" THEN Ok(List(<< >>), Tail(rest))
        ELSE ParseElements(rest, << >>)
  ELSE IF Head(cs) = "{" THEN
    LET rest == SkipWs(Tail(cs))
    IN  IF rest # << >> /\ Head(rest) = "}" THEN Ok(Dict(<< >>), Tail(rest))
        ELSE ParseItems(rest, << >>)
  ELSE IF Head(cs) = "\"" THEN ScanString(Tail(cs), << >>)
  ELSE IF IsDigit(Head(cs)) THEN ParseNumber(cs)
  ELSE IF StartsWith(cs, << "n", "u", "l", "l" >>) THEN Ok(NoneV, Drop(cs, 4))
  ELSE IF StartsWith(cs, << "t", "r", "u", "e" >>) THEN Ok(Bool(TRUE), Drop(cs, 4))
  ELSE IF StartsWith(cs, << "f", "a", "l", "s", "e" >>) THEN Ok(Bool(FALSE), Drop(cs, 5))
  ELSE Fail

\* JSONArray: value (ws "," ws value)* ws "]"
ParseElements(cs, acc) ==
  LET r == ParseValue(cs)
      rest == SkipWs(r.rest)
  IN  IF ~r.ok \/ rest = << >> THEN Fail
      ELSE IF Head(rest) = "]" THEN Ok(List(Append(acc, r.v)), Tail(rest))
      ELSE IF Head(rest) = "," THEN ParseElements(SkipWs(Tail(rest)), Append(acc, r.v))
      ELSE Fail

\* JSONObject: string ws ":" ws value (ws "," ws string ...)* ws "}"
ParseItems(cs, acc) ==
  IF cs = << >> \/ Head(cs) # "\"" THEN Fail
  ELSE
    LET k == ScanString(Tail(cs), << >>)
        colon == SkipWs(k.rest)
    IN  IF ~k.ok \/ colon = << >> \/ Head(colon) # ":" THEN Fail
        ELSE
          LET r == ParseValue(SkipWs(Tail(colon)))
              rest == SkipWs(r.rest)
              items == DictSet(acc, k.v.s, r.v)
          IN  IF ~r.ok \/ rest = << >> THEN Fail
              ELSE IF Head(rest) = "}" THEN Ok(Dict(items), Tail(rest))
              ELSE IF Head(rest) = "," THEN ParseItems(SkipWs(Tail(rest)), items)
              ELSE Fail

\* JSONDecoder.decode: leading whitespace, one value, then only whitespace
Loads(cs) ==
  LET r == ParseValue(SkipWs(cs))
  IN  IF r.ok /\ SkipWs(r.rest) = << >> THEN Ok(r.v, << >>) ELSE Fail

(***************************************************************************)
(* json.dumps with the default separators (", " and ": ").                 *)
(***************************************************************************)
RECURSIVE Digits(_)
Digits(n) ==
  IF n < 10 THEN << DigitChars[n + 1] >>
  ELSE Append(Digits(n \div 10), DigitChars[(n % 10) + 1])

RECURSIVE Dumps(_), DumpsJoin(_)
Dumps(v) ==
  CASE v.t = "int" -> Digits(v.n)
    [] v.t = "str" -> << "\"" >> \o v.s \o << "\"" >>
    [] v.t = "None" -> << "n", "u", "l", "l" >>
    [] v.t = "True" -> << "t", "r", "u", "e" >>
    [] v.t = "False" -> << "f", "a", "l", "s", "e" >>
    [] v.t = "list" -> << "[" >> \o DumpsJoin(v.e) \o << "]" >>
    [] v.t = "dict" -> << "{" >> \o DumpsJoin(v.e) \o << "}" >>
    [] v.t = "item" -> << "\"" >> \o v.s \o << "\"", ":", " " >> \o Dumps(v.e[1])

DumpsJoin(vs) ==
  IF vs = << >> THEN << >>
  ELSE IF Len(vs) = 1 THEN Dumps(vs[1])
  ELSE Dumps(vs[1]) \o << ",", " " >> \o DumpsJoin(Tail(vs))

(***************************************************************************)
(* File names.  The directory holds at most MaxEntries of these; the last  *)
(* two do not match batch_*_metrics.json.                                  *)
(***************************************************************************)
NamePrefix == << "b", "a", "t", "c", "h", "_" >>

NameSuffix == << "_", "m", "e", "t", "r", "i", "c", "s", ".", "j", "s", "o", "n" >>

NameBatch1 == NamePrefix \o << "1" >> \o NameSuffix

NameBatch10 == NamePrefix \o << "1", "0" >> \o NameSuffix

NameBatch2 == NamePrefix \o << "2" >> \o NameSuffix

NameNoMiddle == << "b", "a", "t", "c", "h", "_", "m", "e", "t", "r", "i", "c", "s", ".", "j", "s", "o", "n" >>

NameBackup == NameBatch1 \o << ".", "b", "a", "k" >>

Names == { NameBatch1, NameBatch10, NameBatch2, NameNoMiddle, NameBackup }

(***************************************************************************)
(* File contents.                                                          *)
(***************************************************************************)
\* the array [1,2,3]
TextArr123 == << "[", "1", ",", "2", ",", "3", "]" >>

\* the array [4, 5]
TextArr45 == << "[", "4", ",", " ", "5", "]" >>

\* the empty array
TextEmptyArr == << "[", "]" >>

\* an array holding one record twice
TextDupArr == << "[", "1", "0", ",", " ", "1", "0", "]" >>

\* records of every type, an object with a repeated key
TextNested == << " ", "[", "{", "\"", "a", "\"", ":", " ", "1", ",", " ", "\"", "a", "\"", ":", " ", "2", "}", ",", " ", "n", "u", "l", "l", ",", " ", "t", "r", "u", "e", ",", " ", "\"", "b", "\"", "]", " " >>

\* a top-level object
TextObject == << "{", "\"", "a", "\"", ":", " ", "1", ",", " ", "\"", "b", "\"", ":", " ", "2", "}" >>

\* a top-level string
TextString == << "\"", "a", "b", "\"" >>

\* a top-level number
TextNumber == << "7" >>

\* top-level null
TextNull == << "n", "u", "l", "l" >>

\* a top-level boolean
TextFalse == << "f", "a", "l", "s", "e" >>

\* not JSON: a truncated array
TextTruncated == << "[", "1", "," >>

Texts ==
  { TextArr123,
    TextArr45,
    TextEmptyArr,
    TextDupArr,
    TextNested,
    TextObject,
    TextString,
    TextNumber,
    TextNull,
    TextFalse,
    TextTruncated }

\* json.load(f) for the contents a file of the model can have: Loads,
\* tabulated once
ParsedTexts == [text \in Texts |-> Loads(text)]

JsonLoad(text) == ParsedTexts[text]

(***************************************************************************)
(* Path.glob('batch_*_metrics.json'): '*' matches any characters, also     *)
(* none, and the two literal parts do not overlap.                         *)
(***************************************************************************)
\* mutant: the two literal parts of the pattern may overlap
MatchesOverlapping(name) ==
  /\ StartsWith(name, NamePrefix)
  /\ EndsWith(name, NameSuffix)

Matches(name) ==
  /\ Len(name) >= Len(NamePrefix) + Len(NameSuffix)
  /\ StartsWith(name, NamePrefix)
  /\ EndsWith(name, NameSuffix)

\* Path.glob on a directory that does not exist yields nothing (pathlib's
\* selector returns an empty iterator when the parent is no directory).
Glob(exists, entries) ==
  IF exists THEN { name \in entries : Matches(name) } ELSE {}

\* Path.__lt__ for two paths of one directory: str comparison of the names.
RECURSIVE LexLess(_, _)
LexLess(a, b) ==
  IF a = << >> THEN b # << >>
  ELSE IF b = << >> THEN FALSE
  ELSE IF Head(a) = Head(b) THEN LexLess(Tail(a), Tail(b))
  ELSE Ord(Head(a)) < Ord(Head(b))

RECURSIVE Insert(_, _)
Insert(sorted, x) ==
  IF sorted = << >> THEN << x >>
  ELSE IF LexLess(x, Head(sorted)) THEN << x >> \o sorted
  ELSE << Head(sorted) >> \o Insert(Tail(sorted), x)

\* mutant: the listing is used in directory order
SortedMissing(paths) == paths

\* sorted(iterable)
RECURSIVE Sorted(_)
Sorted(paths) ==
  IF paths = << >> THEN << >>
  ELSE Insert(Sorted(SubSeq(paths, 1, Len(paths) - 1)), paths[Len(paths)])

\* the orders in which the directory may list a set of entries
Listings(S) ==
  { order \in [1..Cardinality(S) -> S] :
      \A i, j \in 1..Cardinality(S) : i # j => order[i] # order[j] }

(***************************************************************************)
(* What list.extend and len accept.  A list yields its elements, a dict    *)
(* its keys, a str its characters; int, bool and None raise TypeError.     *)
(***************************************************************************)
Iterable(v) == v.t \in { "list", "dict", "str" }

Iter(v) ==
  CASE v.t = "list" -> v.e
    [] v.t = "dict" -> [i \in 1..Len(v.e) |-> Str(v.e[i].s)]
    [] v.t = "str" -> [i \in 1..Len(v.s) |-> Str(<< v.s[i] >>)]

PyLen(v) == IF v.t = "str" THEN Len(v.s) ELSE Len(v.e)

\* mutant: a record the list already holds is not added again
ExtendUnique(list, v) ==
  list \o SelectSeq(Iter(v), LAMBDA x : \A i \in 1..Len(list) : list[i] # x)

\* all_metrics.extend(metrics)
Extend(list, v) == list \o Iter(v)

(***************************************************************************)
(* State.                                                                  *)
(*   dirExists, fs    the import directory: fs maps each entry to          *)
(*                    [present, readable, text]                            *)
(*   pc               the statement main() is at                           *)
(*   metric_batches, idx, metrics, all_metrics   the locals of main();     *)
(*                    idx is the position of the for loop                  *)
(*   handles          the files read_batch holds open                      *)
(*   raised           the exception in flight, "" when there is none       *)
(*   out              the lines printed so far                             *)
(*   exitStatus       -1 while running, then the exit status               *)
(*   scans, opened, loaded   history: the number of directory scans, the   *)
(*                    names passed to open(), the values json.load gave    *)
(***************************************************************************)
VARIABLES dirExists, fs, pc, metric_batches, idx, metrics, all_metrics,
          handles, raised, out, exitStatus, scans, opened, loaded

vars == << dirExists, fs, pc, metric_batches, idx, metrics, all_metrics,
           handles, raised, out, exitStatus, scans, opened, loaded >>

env == << dirExists, fs >>

locals == << metric_batches, idx, metrics, all_metrics >>

history == << scans, opened, loaded >>

(***************************************************************************)
(* Lines of standard output.                                               *)
(***************************************************************************)
Line(k, n, text) == [k |-> k, n |-> n, text |-> text]

FoundLine(n) == Line("Found", n, << >>)

\* mutant: the Loaded line shows the running total
LoadedLineRunningTotal(n, name) == Line("Loaded", Len(all_metrics), name)

LoadedLine(n, name) == Line("Loaded", n, name)

BlankLine == Line("", 0, << >>)

TotalLine(n) == Line("Total", n, << >>)

HeaderLine == Line("JSON output for MCP import:", 0, << >>)

\* mutant: the last batch is serialized in place of the whole list
JsonLineOfLastBatch(list) == Line("json", 0, Dumps(metrics))

JsonLine(list) == Line("json", 0, Dumps(List(list)))

FileStates ==
  { [present |-> TRUE, readable |-> TRUE, text |-> t] : t \in Texts }
    \cup { [present |-> TRUE, readable |-> FALSE, text |-> << >>] }

Init ==
  /\ dirExists \in BOOLEAN
  /\ \E D \in SUBSET Names :
       /\ Cardinality(D) <= MaxEntries
       /\ ~dirExists => D = {}
       /\ fs \in [D -> FileStates]
  /\ pc = "start"
  /\ metric_batches = << >>
  /\ idx = 0
  /\ metrics = NoneV
  /\ all_metrics = << >>
  /\ handles = {}
  /\ raised = ""
  /\ out = << >>
  /\ exitStatus = -1
  /\ scans = 0
  /\ opened = << >>
  /\ loaded = << >>

batch_file == metric_batches[idx]

\* an exception nobody handles: traceback, exit status 1
Abort(exc) ==
  /\ pc' = "aborted"
  /\ raised' = exc
  /\ exitStatus' = 1

\* line 19: metric_batches = sorted(import_dir.glob('batch_*_metrics.json'))
ScanDirectory ==
  /\ pc = "start"
  /\ \E order \in Listings(Glob(dirExists, DOMAIN fs)) :
       metric_batches' = Sorted(order)
  /\ scans' = scans + 1
  /\ pc' = "found"
  /\ UNCHANGED << env, idx, metrics, all_metrics, handles, raised, out,
                  exitStatus, opened, loaded >>

\* lines 21-24: print the number of files; all_metrics = []
PrintFound ==
  /\ pc = "found"
  /\ out' = Append(out, FoundLine(Len(metric_batches)))
  /\ all_metrics' = << >>
  /\ pc' = "for"
  /\ UNCHANGED << env, metric_batches, idx, metrics, handles, raised,
                  exitStatus, history >>

\* line 25: the for loop takes the next batch_file and calls read_batch
ForNext ==
  /\ pc = "for"
  /\ idx < Len(metric_batches)
  /\ idx' = idx + 1
  /\ pc' = "open"
  /\ UNCHANGED << env, metric_batches, metrics, all_metrics, handles, raised,
                  out, exitStatus, history >>

\* line 25: the for loop is exhausted
ForExit ==
  /\ pc = "for"
  /\ idx = Len(metric_batches)
  /\ pc' = "total"
  /\ UNCHANGED << env, locals, handles, raised, out, exitStatus, history >>

\* line 12: open(filepath, 'r') succeeds
OpenOk ==
  /\ pc = "open"
  /\ fs[batch_file].present /\ fs[batch_file].readable
  /\ handles' = handles \cup { batch_file }
  /\ opened' = Append(opened, batch_file)
  /\ pc' = "load"
  /\ UNCHANGED << env, locals, raised, out, exitStatus, scans, loaded >>

\* mutant: a failed open is tried a second time
OpenFailRetries ==
  /\ pc = "open"
  /\ ~(fs[batch_file].present /\ fs[batch_file].readable)
  /\ opened' = Append(opened, batch_file)
  /\ IF opened # << >> /\ opened[Len(opened)] = batch_file
     THEN Abort("OSError")
     ELSE UNCHANGED << pc, raised, exitStatus >>
  /\ UNCHANGED << env, locals, handles, out, scans, loaded >>

\* line 12: open raises (FileNotFoundError, PermissionError, ...)
OpenFail ==
  /\ pc = "open"
  /\ ~(fs[batch_file].present /\ fs[batch_file].readable)
  /\ opened' = Append(opened, batch_file)
  /\ Abort("OSError")
  /\ UNCHANGED << env, locals, handles, out, scans, loaded >>

\* line 13: json.load(f) returns the parsed value
LoadOk ==
  /\ pc = "load"
  /\ JsonLoad(fs[batch_file].text).ok
  /\ metrics' = JsonLoad(fs[batch_file].text).v
  /\ loaded' = Append(loaded, JsonLoad(fs[batch_file].text).v)
  /\ pc' = "exit_with"
  /\ UNCHANGED << env, metric_batches, idx, all_metrics, handles, raised, out,
                  exitStatus, scans, opened >>

\* mutant: a file that is not JSON is skipped
LoadFailSkips ==
  /\ pc = "load"
  /\ ~JsonLoad(fs[batch_file].text).ok
  /\ handles' = handles \ { batch_file }
  /\ pc' = "for"
  /\ UNCHANGED << env, locals, raised, out, exitStatus, history >>

\* line 13: json.load(f) raises JSONDecodeError inside the with block
LoadFail ==
  /\ pc = "load"
  /\ ~JsonLoad(fs[batch_file].text).ok
  /\ raised' = "JSONDecodeError"
  /\ pc' = "exit_with"
  /\ UNCHANGED << env, locals, handles, out, exitStatus, history >>

\* lines 12-13: leaving the with block closes f, then read_batch returns
CloseReturn ==
  /\ pc = "exit_with"
  /\ raised = ""
  /\ handles' = handles \ { batch_file }
  /\ pc' = "extend"
  /\ UNCHANGED << env, locals, raised, out, exitStatus, history >>

\* mutant: the file is not closed when json.load raised
CloseRaiseLeaks ==
  /\ pc = "exit_with"
  /\ raised # ""
  /\ Abort(raised)
  /\ UNCHANGED << env, locals, handles, out, history >>

\* lines 12-13: leaving the with block closes f, then the exception goes on
CloseRaise ==
  /\ pc = "exit_with"
  /\ raised # ""
  /\ handles' = handles \ { batch_file }
  /\ Abort(raised)
  /\ UNCHANGED << env, locals, out, history >>

\* line 27: all_metrics.extend(metrics)
ExtendOk ==
  /\ pc = "extend"
  /\ Iterable(metrics)
  /\ all_metrics' = Extend(all_metrics, metrics)
  /\ pc' = "loaded"
  /\ UNCHANGED << env, metric_batches, idx, metrics, handles, raised, out,
                  exitStatus, history >>

\* mutant: a value that cannot be iterated is skipped
ExtendFailSkips ==
  /\ pc = "extend"
  /\ ~Iterable(metrics)
  /\ pc' = "for"
  /\ UNCHANGED << env, locals, handles, raised, out, exitStatus, history >>

\* line 27: extend raises TypeError: object is not iterable
ExtendFail ==
  /\ pc = "extend"
  /\ ~Iterable(metrics)
  /\ Abort("TypeError")
  /\ UNCHANGED << env, locals, handles, out, history >>

\* line 28: print the number of metrics of this file and its name
PrintLoaded ==
  /\ pc = "loaded"
  /\ out' = Append(out, LoadedLine(PyLen(metrics), batch_file))
  /\ pc' = "for"
  /\ UNCHANGED << env, locals, handles, raised, exitStatus, history >>

\* mutant: the Total line is printed without the blank line before it
PrintTotalNoBlank ==
  /\ pc = "total"
  /\ out' = Append(out, TotalLine(Len(all_metrics)))
  /\ pc' = "header"
  /\ UNCHANGED << env, locals, handles, raised, exitStatus, history >>

\* line 30: print a blank line and the total
PrintTotal ==
  /\ pc = "total"
  /\ out' = out \o << BlankLine, TotalLine(Len(all_metrics)) >>
  /\ pc' = "header"
  /\ UNCHANGED << env, locals, handles, raised, exitStatus, history >>

\* line 33: print a blank line and the header of the payload
PrintHeader ==
  /\ pc = "header"
  /\ out' = out \o << BlankLine, HeaderLine >>
  /\ pc' = "dumps"
  /\ UNCHANGED << env, locals, handles, raised, exitStatus, history >>

\* lines 34-37: print json.dumps(all_metrics); main returns, exit status 0
PrintJson ==
  /\ pc = "dumps"
  /\ out' = Append(out, JsonLine(all_metrics))
  /\ pc' = "done"
  /\ exitStatus' = 0
  /\ UNCHANGED << env, locals, handles, raised, history >>

\* the environment: a matched file is deleted after the scan and before
\* main() gets to open it
Unlink ==
  /\ pc \notin { "start", "done", "aborted" }
  /\ \E i \in (idx + 1)..Len(metric_batches) :
       /\ fs[metric_batches[i]].present
       /\ fs' = [fs EXCEPT ![metric_batches[i]].present = FALSE]
  /\ UNCHANGED << dirExists, pc, locals, handles, raised, out, exitStatus,
                  history >>

Main ==
  \/ ScanDirectory
  \/ PrintFound
  \/ ForNext
  \/ ForExit
  \/ OpenOk
  \/ OpenFail
  \/ LoadOk
  \/ LoadFail
  \/ CloseReturn
  \/ CloseRaise
  \/ ExtendOk
  \/ ExtendFail
  \/ PrintLoaded
  \/ PrintTotal
  \/ PrintHeader
  \/ PrintJson

Next == Main \/ Unlink

Spec == Init /\ [][Next]_vars

\* the interpreter always runs the next statement of main()
FairSpec == Spec /\ WF_vars(Main)

(***************************************************************************)
(* Definitions the properties share.                                       *)
(***************************************************************************)
Terminated == pc \in { "done", "aborted" }

AfterLoop == pc \in { "total", "header", "dumps", "done" }

LinesOf(k) == SelectSeq(out, LAMBDA l : l.k = k)

RECURSIVE SumN(_)
SumN(lines) == IF lines = << >> THEN 0 ELSE Head(lines).n + SumN(Tail(lines))

\* the concatenation of the arrays vals[1], vals[2], ...
RECURSIVE Concat(_)
Concat(vals) == IF vals = << >> THEN << >> ELSE Head(vals).e \o Concat(Tail(vals))

RECURSIVE SumLen(_)
SumLen(vals) == IF vals = << >> THEN 0 ELSE Len(Head(vals).e) + SumLen(Tail(vals))

AllArrays(vals) == \A i \in 1..Len(vals) : vals[i].t = "list"

\* the value a file holds, when it holds JSON
FileValue(name) == Loads(fs[name].text).v

\* what a run prints when it finds no batch file
EmptyRunOutput ==
  << Line("Found", 0, << >>),
     Line("", 0, << >>),
     Line("Total", 0, << >>),
     Line("", 0, << >>),
     Line("JSON output for MCP import:", 0, << >>),
     Line("json", 0, << "[", "]" >>) >>

(***************************************************************************)
(* C1  When every matched file holds a JSON array and the loop has         *)
(* finished, all_metrics is the concatenation of the files' arrays in      *)
(* ascending lexicographic order of the file names, each array in its own  *)
(* order, and its length is the sum of the arrays' lengths.                *)
(***************************************************************************)
C1_Concatenation ==
  (AfterLoop /\ AllArrays(loaded)) =>
    /\ { metric_batches[i] : i \in 1..Len(metric_batches) }
         = DOMAIN fs \ { NameNoMiddle, NameBackup }
    /\ \A i, j \in 1..Len(metric_batches) :
         i < j => LexLess(metric_batches[i], metric_batches[j])
    /\ Len(loaded) = Len(metric_batches)
    /\ \A i \in 1..Len(loaded) : loaded[i] = FileValue(metric_batches[i])
    /\ all_metrics = Concat(loaded)
    /\ Len(all_metrics) = SumLen(loaded)

\* [1,2,3] in batch_10 and [4, 5] in the later batch_2 give [1,2,3,4,5]
C1_Witness ==
  /\ pc = "done"
  /\ DOMAIN fs = { NameBatch10, NameBatch2 }
  /\ fs[NameBatch10].text = TextArr123
  /\ fs[NameBatch2].text = TextArr45
  /\ all_metrics = << Num(1), Num(2), Num(3), Num(4), Num(5) >>

(***************************************************************************)
(* C2  (as stated) When the import directory does not exist the program    *)
(* ends with a non-zero exit status and never prints the JSON line.        *)
(***************************************************************************)
C2_Original ==
  ~dirExists => (exitStatus # 0 /\ LinesOf("json") = << >>)

(***************************************************************************)
(* C2  (amended) When the import directory does not exist the scan finds   *)
(* no file and raises nothing: no file is opened, the run never aborts     *)
(* and it ends with exit status 0 after printing Found 0, Total 0 and []   *)
(* as the JSON line.                                                       *)
(***************************************************************************)
C2_MissingDirectory ==
  ~dirExists =>
    /\ pc # "aborted"
    /\ metric_batches = << >>
    /\ opened = << >>
    /\ pc = "found" => out = << >>
    /\ pc = "done" => (exitStatus = 0 /\ out = EmptyRunOutput)

C2_Witness == ~dirExists /\ pc = "done" /\ exitStatus = 0

(***************************************************************************)
(* C3  (as stated) A matched file whose JSON value is not an array makes   *)
(* the run abort at that file: nothing of it is added, no Loaded line is   *)
(* printed for it and the loop goes no further.                            *)
(***************************************************************************)
C3_Original ==
  \A i \in 1..Len(loaded) :
    loaded[i].t # "list" =>
      /\ i = idx
      /\ pc \in { "exit_with", "extend", "aborted" }
      /\ Len(LinesOf("Loaded")) = i - 1

\* a number, a boolean or null stops the run at its file
C3_ScalarAborts ==
  \A i \in 1..Len(loaded) :
    loaded[i].t \in { "int", "True", "False", "None" } =>
      /\ i = idx /\ i = Len(loaded)
      /\ pc \in { "exit_with", "extend", "aborted" }
      /\ pc = "aborted" => (raised = "TypeError" /\ exitStatus = 1)
      /\ out[1] = Line("Found", Len(metric_batches), << >>)
      /\ Len(out) = i
      /\ \A j \in 2..Len(out) : out[j].k = "Loaded"
      /\ Len(all_metrics) = SumN(LinesOf("Loaded"))

\* only those raise TypeError; the keys of an object and the characters of
\* a string are appended
C3_IterableAccepted ==
  /\ (pc = "aborted" /\ raised = "TypeError") =>
       metrics.t \in { "int", "True", "False", "None" }
  /\ (pc = "loaded" /\ metrics.t = "dict") =>
       SubSeq(all_metrics, Len(all_metrics) - Len(metrics.e) + 1, Len(all_metrics))
         = [j \in 1..Len(metrics.e) |-> Str(metrics.e[j].s)]
  /\ (pc = "loaded" /\ metrics.t = "str") =>
       SubSeq(all_metrics, Len(all_metrics) - Len(metrics.s) + 1, Len(all_metrics))
         = [j \in 1..Len(metrics.s) |-> Str(<< metrics.s[j] >>)]

(***************************************************************************)
(* C3  (amended) A matched file whose JSON value is a number, a boolean    *)
(* or null makes the run abort at that file with a TypeError: exit status  *)
(* 1, after the Found line, nothing of the file added to all_metrics, no   *)
(* Loaded line for it, no Total line and no JSON line.  (An object or a    *)
(* string is iterable: its keys or characters are appended.)               *)
(***************************************************************************)
C3_NonArray == C3_ScalarAborts /\ C3_IterableAccepted

C3_Witness ==
  /\ pc = "aborted"
  /\ raised = "TypeError"
  /\ idx = 2
  /\ loaded[2] = NoneV
  /\ all_metrics # << >>

(***************************************************************************)
(* C4  When the load of the i-th file fails (the file cannot be opened,    *)
(* was deleted after the scan, or is not JSON) the run stops at that       *)
(* file: the file is not skipped, no later file is opened, the exit        *)
(* status is 1 and neither the Total line nor the JSON line is printed.    *)
(***************************************************************************)
LoadFails(name) ==
  \/ ~fs[name].present
  \/ ~fs[name].readable
  \/ ~Loads(fs[name].text).ok

C4_AllOrNothing ==
  \A i \in 1..Len(opened) :
    LoadFails(opened[i]) =>
      /\ i = Len(opened) /\ i = idx
      /\ opened = SubSeq(metric_batches, 1, i)
      /\ Len(loaded) = i - 1
      /\ pc \in { "load", "exit_with", "aborted" }
      /\ pc = "aborted" => (exitStatus = 1 /\ raised \in { "OSError", "JSONDecodeError" })
      /\ LinesOf("Total") = << >>
      /\ LinesOf("json") = << >>
      /\ Len(LinesOf("Loaded")) = i - 1

C4_Witness ==
  /\ pc = "aborted"
  /\ raised = "JSONDecodeError"
  /\ idx = 2
  /\ all_metrics # << >>
  /\ LinesOf("json") = << >>

(***************************************************************************)
(* C5  A completed run has printed, in this order: the Found line with     *)
(* the number of matched files, one Loaded line per file in scan order,    *)
(* a blank line and the Total line, a blank line and the header, and the   *)
(* JSON line last.  The Found line is printed before any file is opened    *)
(* and a file's Loaded line only after its elements were appended.         *)
(***************************************************************************)
C5_OutputOrder ==
  /\ opened # << >> => out[1].k = "Found"
  /\ Len(LinesOf("Loaded")) = (IF pc \in { "start", "found" } THEN 0
                               ELSE IF pc = "for" \/ AfterLoop THEN idx
                               ELSE idx - 1)
  /\ \A i \in 1..Len(LinesOf("Loaded")) :
       Len(all_metrics) >= SumN(SubSeq(LinesOf("Loaded"), 1, i))
  /\ pc = "done" =>
       LET N == Len(metric_batches)
       IN  /\ N = Cardinality(DOMAIN fs \ { NameNoMiddle, NameBackup })
           /\ Len(out) = N + 6
           /\ out[1] = Line("Found", N, << >>)
           /\ \A i \in 1..N :
                out[1 + i] = Line("Loaded", PyLen(loaded[i]), metric_batches[i])
           /\ out[N + 2] = Line("", 0, << >>)
           /\ out[N + 3] = Line("Total", Len(all_metrics), << >>)
           /\ out[N + 4] = Line("", 0, << >>)
           /\ out[N + 5] = Line("JSON output for MCP import:", 0, << >>)
           /\ out[N + 6].k = "json"

C5_Witness ==
  /\ pc = "done"
  /\ Len(metric_batches) = 2
  /\ Len(LinesOf("Loaded")) = 2
  /\ out[Len(out)].k = "json"

(***************************************************************************)
(* C6  When the directory exists and holds no file matching                *)
(* batch_*_metrics.json, no file is opened, the run never aborts and it    *)
(* ends with exit status 0 after printing Found 0, Total 0 and [].         *)
(***************************************************************************)
C6_NoMatchingFiles ==
  (dirExists /\ DOMAIN fs \subseteq { NameNoMiddle, NameBackup }) =>
    /\ pc # "aborted"
    /\ opened = << >>
    /\ handles = {}
    /\ pc = "done" => (exitStatus = 0 /\ out = EmptyRunOutput)

C6_Witness ==
  /\ dirExists
  /\ DOMAIN fs = { NameNoMiddle, NameBackup }
  /\ pc = "done"
  /\ out = EmptyRunOutput

(***************************************************************************)
(* C7  (as stated) In every completed run the parsed JSON line is the      *)
(* concatenation of the parsed contents of the input files (a file that    *)
(* holds one value that is no array contributing that value).              *)
(***************************************************************************)
ContentsOf(v) == IF v.t = "list" THEN v.e ELSE << v >>

RECURSIVE ConcatContents(_)
ConcatContents(vals) ==
  IF vals = << >> THEN << >>
  ELSE ContentsOf(Head(vals)) \o ConcatContents(Tail(vals))

C7_Original ==
  pc = "done" =>
    /\ Loads(out[Len(out)].text).ok
    /\ Loads(out[Len(out)].text).v = List(ConcatContents(loaded))

(***************************************************************************)
(* C7  (amended) In every completed run in which every input file parsed   *)
(* to a JSON array, parsing the JSON line yields the concatenation of the  *)
(* files' arrays: every record once per occurrence, in order, unchanged.   *)
(***************************************************************************)
C7_RoundTrip ==
  (pc = "done" /\ AllArrays(loaded)) =>
    /\ Len(loaded) = Len(metric_batches)
    /\ \A i \in 1..Len(loaded) : loaded[i] = FileValue(metric_batches[i])
    /\ Loads(out[Len(out)].text).ok
    /\ Loads(out[Len(out)].text).v = List(Concat(loaded))

\* two files with the same array of two equal records: four records out
C7_Witness ==
  /\ pc = "done"
  /\ Len(loaded) = 2
  /\ loaded[1] = List(<< Num(10), Num(10) >>)
  /\ loaded[2] = loaded[1]
  /\ Loads(out[Len(out)].text).v = List(<< Num(10), Num(10), Num(10), Num(10) >>)

(***************************************************************************)
(* C8  At most one batch file is open at any time, only while read_batch   *)
(* runs, and it is closed before the next file is opened and before the    *)
(* process ends, also when json.load raised.                               *)
(***************************************************************************)
C8_HandlesClosed ==
  /\ Cardinality(handles) <= 1
  /\ handles # {} => (pc \in { "load", "exit_with" } /\ handles = { batch_file })
  /\ pc \in { "load", "exit_with" } => handles = { batch_file }

C8_Witness ==
  /\ pc = "aborted"
  /\ raised = "JSONDecodeError"
  /\ Len(opened) = 2
  /\ handles = {}

(***************************************************************************)
(* C9  Every run terminates: with exit status 0 after every matched file   *)
(* was opened exactly once in scan order, or with exit status 1 at the     *)
(* first error.  No file is opened twice and the directory is scanned      *)
(* once, before any file is opened.                                        *)
(***************************************************************************)
C9_Safety ==
  /\ scans = (IF pc = "start" THEN 0 ELSE 1)
  /\ opened # << >> => scans = 1
  /\ Len(opened) <= Len(metric_batches)
  /\ opened = SubSeq(metric_batches, 1, Len(opened))
  /\ \A i, j \in 1..Len(opened) : i # j => opened[i] # opened[j]
  /\ exitStatus = (IF pc = "done" THEN 0 ELSE IF pc = "aborted" THEN 1 ELSE -1)
  /\ pc = "done" => (opened = metric_batches /\ raised = "")
  /\ pc = "aborted" => raised # ""

C9_Terminates == []C9_Safety /\ <>Terminated

C9_Witness ==
  /\ pc = "done"
  /\ Len(opened) = 2
  /\ scans = 1
  /\ exitStatus = 0

(***************************************************************************)
(* C10  After any number of files the length of all_metrics is the sum of  *)
(* the counts of the Loaded lines printed so far, whatever iterable each   *)
(* file held; in a completed run the Total line shows that sum, which is   *)
(* the number of elements of the emitted JSON array, and there are as      *)
(* many Loaded lines as the Found line says.                               *)
(***************************************************************************)
C10_CountConsistency ==
  /\ (pc = "for" \/ AfterLoop) =>
       Len(all_metrics) = SumN(LinesOf("Loaded"))
  /\ pc = "done" =>
       /\ LinesOf("Total") = << Line("Total", SumN(LinesOf("Loaded")), << >>) >>
       /\ Len(Loads(out[Len(out)].text).v.e) = SumN(LinesOf("Loaded"))
       /\ Len(LinesOf("Loaded")) = out[1].n

\* an object with two keys and a string of two characters: 2 + 2 = 4
C10_Witness ==
  /\ pc = "done"
  /\ Len(loaded) = 2
  /\ loaded[1].t = "dict"
  /\ loaded[2].t = "str"
  /\ LinesOf("Total") = << Line("Total", 4, << >>) >>
====
